---- MODULE Spec2Model ----
(***************************************************************************)
(* Model of the webview presentation layer: the RPC call sites of the     *)
(* components, the TabList keyboard navigation, the searchable model      *)
(* pickers, the focus trap and the modal hooks, and the keyboard helpers  *)
(* of interactiveProps (toggle button, arrow-key navigation, activation). *)
(*                                                                         *)
(* Each part of the program is a group of variables with its own initial  *)
(* predicate and actions; a specification per part (SpecRpc, SpecTabs,    *)
(* SpecPicker, SpecFocus, SpecModal, SpecToggle, SpecNav, SpecActivation) *)
(* runs that part and keeps the others idle.                              *)
(***************************************************************************)
EXTENDS Integers, Sequences, FiniteSets, TLC

VARIABLES
    \* ---- RPC call sites ----
    calls,              \* the RPC promises created so far: <<[method, state]>>
    consoleErrors,      \* indices of calls whose rejection reached console.error
    unhandled,          \* indices of calls whose rejection no handler caught
    view,               \* the view the extension state navigated to
    hfModels,           \* 0: bundled Hugging Face models; i: response of call i stored
    pendingModelId,     \* OcaModelPicker: model awaiting acknowledgement ("" = null)
    showRestrictedPopup, \* OcaModelPicker: OcaRestrictivePopup is rendered
    finallyQueued,      \* Navbar: calls whose .finally callback has yet to run, in order
    \* ---- TabList / TabTrigger ----
    tabListSource,      \* which of the two TabList sources is rendered
    children,           \* props.value of each child of the TabList, in order
    tabValue,           \* the TabList's value prop
    lastKey,            \* key of the last keydown on the TabList ("" = none yet)
    valueBefore,        \* the value prop when that key was pressed
    valueChanges,       \* arguments of the onValueChange calls that event made
    defaultPrevented,   \* whether that event's default was prevented
    pendingFocus,       \* tab value a requested animation frame will focus (NoTab = none)
    tabFocus,           \* tab value of the focused tab button (NoTab = none)
    \* ---- searchable model pickers ----
    pickerKind,         \* which picker component is mounted
    currentMode,        \* the picker's currentMode prop
    modelId,            \* the provider's configured model ID of each mode ("" = unset)
    favoritedModelIds,  \* HicapModelPicker: favoritedModelIds of the extension state
    searchTerm,         \* useState searchTerm
    isDropdownVisible,  \* useState isDropdownVisible
    selectedIndex,      \* useListboxNavigation selectedIndex (0-based, -1 = none)
    fuseResults,        \* ids returned by fuse.search(searchTerm), in rank order
    lastEvent,          \* "Escape"/"Enter" pressed on the open listbox, "Click" on a
                        \* result, "" after any other event
    committed,          \* id of the result that event committed ("" = none)
    \* ---- focus traps ----
    trapKind,           \* "useFocusTrap", "createFocusTrapHandler" or "useModal"
    containerElements,  \* the kinds of the container's elements, in document order
    activeElement,      \* document.activeElement, as a position in the document
    isActive,           \* useFocusTrap's isActive (useModal passes isOpen)
    trapListener,       \* handleTabKey is registered on the document
    onEscapeProvided,   \* createFocusTrapHandler got options.onEscape
    lastTrapKey,        \* the last key pressed with a bare trap ("" = none)
    focusBefore,        \* document.activeElement when that key was pressed
    onEscapeCalled,     \* that key press called onEscape
    \* ---- useModal ----
    modalMounted,       \* the component calling useModal is mounted
    triggerRefSet,      \* the trigger button carries triggerRef
    triggerInComponent, \* the component that calls useModal renders the trigger
    openerInDocument,   \* the background element after the container exists
    previousActiveElement, \* useFocusRestoration's previousActiveElementRef.current
    focusAtMount,       \* document.activeElement when the component mounted
    escapeListeners,    \* the onClose closures of the registered handleEscape listeners
    onCloseProp,        \* the onClose prop of the last render
    onCloseCalls,       \* number of onClose calls
    openEscapes,        \* number of Escape presses made while isOpen
    modalEvent,         \* "close" / "unmount" when the last step was one, else ""
    \* ---- toggle button (createToggleButtonProps) ----
    isExpanded,         \* the consumer's expanded/collapsed state
    ariaLabel,          \* the ariaLabel argument
    collapseOnEscape,   \* the collapseOnEscape argument
    toggleProps,        \* the props of the last render
    lastToggleEvent,    \* "click" or the key of the last event ("" = none)
    expandedBefore,     \* isExpanded when that event happened
    onToggleCalls,      \* number of onToggle calls that event made
    \* ---- arrow-key navigation group (createArrowKeyNavigationHandler) ----
    navOptions,         \* the options object given to createArrowKeyNavigationHandler
    navCount,           \* number of items in the group
    navIndex,           \* index of the current item (0-based)
    lastNavKey,         \* the key of the last key press ("" = none)
    navIndexBefore,     \* navIndex when that key was pressed
    navCallback,        \* the callback that key press called ("none" = nothing)
    navPrevented,       \* that key press had its default prevented
    \* ---- elements activated with createKeyboardActivationHandler ----
    activationElement,  \* the element that carries the handler
    isDisabled,         \* createListboxOptionProps' isDisabled argument
    activations,        \* number of times the element's onClick / onSelect has run
    lastActivationKey,  \* "click" or the key of the last event ("" = none)
    keyHandlerCalls,    \* calls the keyboard handler made during that event
    nativeClicks,       \* clicks the browser made from that key press
    activationPrevented \* that key press had its default prevented

rpcVars == <<calls, consoleErrors, unhandled, view, hfModels, pendingModelId,
             showRestrictedPopup, finallyQueued>>

tabVars == <<tabListSource, children, tabValue, lastKey, valueBefore, valueChanges,
             defaultPrevented, pendingFocus, tabFocus>>

pickerVars == <<pickerKind, currentMode, modelId, favoritedModelIds, searchTerm,
                isDropdownVisible, selectedIndex, fuseResults, lastEvent, committed>>

trapVars == <<trapKind, containerElements, activeElement, isActive, trapListener,
              onEscapeProvided, lastTrapKey, focusBefore, onEscapeCalled>>

modalVars == <<modalMounted, triggerRefSet, triggerInComponent, openerInDocument, previousActiveElement,
               focusAtMount, escapeListeners, onCloseProp, onCloseCalls, openEscapes,
               modalEvent>>

toggleVars == <<isExpanded, ariaLabel, collapseOnEscape, toggleProps, lastToggleEvent,
                expandedBefore, onToggleCalls>>

navVars == <<navOptions, navCount, navIndex, lastNavKey, navIndexBefore, navCallback,
             navPrevented>>

activationVars == <<activationElement, isDisabled, activations, lastActivationKey,
                    keyHandlerCalls, nativeClicks, activationPrevented>>

vars == <<rpcVars, tabVars, pickerVars, trapVars, modalVars, toggleVars, navVars,
          activationVars>>

\* A step of one part leaves the other parts alone.
WidgetsIdleStep == UNCHANGED <<toggleVars, navVars, activationVars>>
RpcOnly == UNCHANGED <<tabVars, pickerVars, trapVars, modalVars>> /\ WidgetsIdleStep
TabOnly == UNCHANGED <<rpcVars, pickerVars, trapVars, modalVars>> /\ WidgetsIdleStep
PickerOnly == UNCHANGED <<rpcVars, tabVars, trapVars, modalVars>> /\ WidgetsIdleStep
FocusOnly == UNCHANGED <<rpcVars, tabVars, pickerVars, modalVars>> /\ WidgetsIdleStep
ModalOnly == UNCHANGED <<rpcVars, tabVars, pickerVars>> /\ WidgetsIdleStep
PagesIdleStep == UNCHANGED <<rpcVars, tabVars, pickerVars, trapVars, modalVars>>
ToggleOnly == PagesIdleStep /\ UNCHANGED <<navVars, activationVars>>
NavOnly == PagesIdleStep /\ UNCHANGED <<toggleVars, activationVars>>
ActivationOnly == PagesIdleStep /\ UNCHANGED <<toggleVars, navVars>>

(***************************************************************************)
(* Keyboard handlers of interactiveProps                                   *)
(***************************************************************************)

Keys == {"ArrowUp", "ArrowDown", "ArrowLeft", "ArrowRight", "Home", "End",
         "Enter", "Escape", "Tab"}

\* Variant of createArrowKeyNavigationHandler: the orientation defaults to
\* "both".
createArrowKeyNavigationHandlerBothByDefault(options, key) ==
    LET orientation == IF options.orientation = "unset"
                          THEN "both" ELSE options.orientation
        isHorizontal == orientation = "horizontal" \/ orientation = "both"
        isVertical == orientation = "vertical" \/ orientation = "both"
        callback ==
            CASE key = "ArrowRight" /\ isHorizontal /\ options.onNext -> "onNext"
              [] key = "ArrowLeft" /\ isHorizontal /\ options.onPrev -> "onPrev"
              [] key = "ArrowDown" /\ isVertical /\ options.onNext -> "onNext"
              [] key = "ArrowUp" /\ isVertical /\ options.onPrev -> "onPrev"
              [] key = "Home" /\ options.onFirst -> "onFirst"
              [] key = "End" /\ options.onLast -> "onLast"
              [] OTHER -> "none"
    IN [callback |-> callback, prevented |-> callback # "none"]

\* createArrowKeyNavigationHandler(options)(e): the callback the handler calls
\* for the key ("none" when it calls nothing) and whether it prevents the
\* default.  options.onNext .. onLast say whether the callback was given;
\* orientation "unset" is an options object without the field.
createArrowKeyNavigationHandler(options, key) ==
    LET orientation == IF options.orientation = "unset"
                          THEN "horizontal" ELSE options.orientation
        isHorizontal == orientation = "horizontal" \/ orientation = "both"
        isVertical == orientation = "vertical" \/ orientation = "both"
        callback ==
            CASE key = "ArrowRight" /\ isHorizontal /\ options.onNext -> "onNext"
              [] key = "ArrowLeft" /\ isHorizontal /\ options.onPrev -> "onPrev"
              [] key = "ArrowDown" /\ isVertical /\ options.onNext -> "onNext"
              [] key = "ArrowUp" /\ isVertical /\ options.onPrev -> "onPrev"
              [] key = "Home" /\ options.onFirst -> "onFirst"
              [] key = "End" /\ options.onLast -> "onLast"
              [] OTHER -> "none"
    IN [callback |-> callback, prevented |-> callback # "none"]

(***************************************************************************)
(* TabList / TabTrigger                                                    *)
(***************************************************************************)

\* Bound: number of children of the TabList.
MaxTabs == 3

\* A child without a value prop (an element that is no TabTrigger).
NoValue == "<undefined>"

\* The value props of the TabTriggers (value: string): the empty string is
\* one of them, and it is falsy.
TabIds == {"", "general", "about"}

\* No tab: nothing to focus, no tab focused.
NoTab == "<none>"

\* A value of the TabList that no tab carries.
OtherValue == "other"

TabListSources == {"Tab.tsx", "part_004"}

ChildLists == UNION {[1..n -> TabIds \cup {NoValue}] : n \in 0..MaxTabs}

\* JavaScript truthiness of child.props.value.
Truthy(v) == v # NoValue /\ v # ""

\* tabValues: the truthy values of the children, in order.
RECURSIVE tabValuesOf(_)
tabValuesOf(cs) ==
    IF cs = <<>> THEN <<>>
    ELSE IF Truthy(Head(cs)) THEN <<Head(cs)>> \o tabValuesOf(Tail(cs))
         ELSE tabValuesOf(Tail(cs))

tabValues == tabValuesOf(children)

\* Array.prototype.indexOf with 0-based result, -1 when absent.
indexOf(seq, v) ==
    IF \E k \in DOMAIN seq : seq[k] = v
       THEN (CHOOSE k \in DOMAIN seq : seq[k] = v /\ \A j \in 1..(k - 1) : seq[j] # v) - 1
       ELSE -1

\* seq[index] for a 0-based index; NoValue when out of range.
at(seq, index) == IF index + 1 \in DOMAIN seq THEN seq[index + 1] ELSE NoValue

TabIdle ==
    /\ tabListSource = "Tab.tsx"
    /\ children = <<>>
    /\ tabValue = OtherValue
    /\ lastKey = ""
    /\ valueBefore = OtherValue
    /\ valueChanges = <<>>
    /\ defaultPrevented = FALSE
    /\ pendingFocus = NoTab
    /\ tabFocus = NoTab

TabInit ==
    /\ tabListSource \in TabListSources
    /\ children \in ChildLists
    /\ tabValue \in TabIds \cup {OtherValue}
    /\ lastKey = ""
    /\ valueBefore = tabValue
    /\ valueChanges = <<>>
    /\ defaultPrevented = FALSE
    /\ pendingFocus = NoTab
    /\ tabFocus = NoTab

\* Index of the tab an arrow key moves to (Tab.tsx handleKeyDown; onNext and
\* onPrev of part_004).
nextIndex(currentIndex, forward) ==
    IF forward
       THEN (currentIndex + 1) % Len(tabValues)
       ELSE (currentIndex - 1 + Len(tabValues)) % Len(tabValues)

\* part_004 navigateToTab(index): the values onValueChange is called with.
navigateToTab(index) ==
    LET nextValue == at(tabValues, index)
    IN IF Truthy(nextValue) THEN <<nextValue>> ELSE <<>>

\* Tab.tsx handleKeyDown: what the event does, as
\* [calls: arguments of onValueChange, prevented].
handleKeyDownInline(key) ==
    IF key # "ArrowUp" /\ key # "ArrowDown"
       THEN [calls |-> <<>>, prevented |-> FALSE]
       ELSE LET currentIndex == indexOf(tabValues, tabValue)
            IN IF currentIndex = -1
                  THEN [calls |-> <<>>, prevented |-> TRUE]
                  ELSE [calls |-> <<at(tabValues, nextIndex(currentIndex, key = "ArrowDown"))>>,
                        prevented |-> TRUE]

\* part_004 handleKeyDown: undefined when the value matches no tab, otherwise
\* the handler of createArrowKeyNavigationHandler with orientation "both".
handleKeyDownShared(key) ==
    LET currentIndex == indexOf(tabValues, tabValue)
        r == createArrowKeyNavigationHandler(
                 [onNext |-> TRUE, onPrev |-> TRUE, onFirst |-> TRUE, onLast |-> TRUE,
                  orientation |-> "both"], key)
    IN IF currentIndex = -1
          THEN [calls |-> <<>>, prevented |-> FALSE]
          ELSE [calls |->
                   CASE r.callback = "onNext" -> navigateToTab(nextIndex(currentIndex, TRUE))
                     [] r.callback = "onPrev" -> navigateToTab(nextIndex(currentIndex, FALSE))
                     [] r.callback = "onFirst" -> navigateToTab(0)
                     [] r.callback = "onLast" -> navigateToTab(Len(tabValues) - 1)
                     [] OTHER -> <<>>,
                prevented |-> r.prevented]

handleKeyDown(key) ==
    IF tabListSource = "Tab.tsx" THEN handleKeyDownInline(key)
    ELSE handleKeyDownShared(key)

\* The parent's onValueChange stores the value it is given (a controlled
\* TabList): the value after the calls of one event.
valueAfter(changes) == IF changes = <<>> THEN tabValue ELSE changes[Len(changes)]

\* Variant of createTabButtonProps: every tab stays in the tab order.
createTabButtonPropsAllTabbable(isSelected) ==
    [ariaSelected |-> isSelected, tabIndex |-> 0]

\* createTabButtonProps(ariaLabel, isSelected, panelId, onClick): the two
\* attributes that depend on isSelected.
createTabButtonProps(isSelected) ==
    [ariaSelected |-> isSelected, tabIndex |-> IF isSelected THEN 0 ELSE -1]

\* The props TabList clones into its i-th child: isSelected.
isSelectedProp(i) == children[i] = tabValue

\* The attributes the i-th TabTrigger renders on its button.
TabTriggerRender(i) ==
    IF tabListSource = "Tab.tsx"
       THEN [ariaSelected |-> isSelectedProp(i),
             tabIndex |-> IF isSelectedProp(i) THEN 0 ELSE -1]
       ELSE createTabButtonProps(isSelectedProp(i))

\* The browser's default action of Tab (Shift+Tab) inside the tablist: the
\* tabs that may have the focus afterwards (NoTab = no tab).  Focus moves to
\* the next (previous) tab button with tabIndex 0 in document order, stopping
\* before it on a child that is no TabTrigger if that child takes focus.  Past
\* the last (first) such button focus goes to what follows the tablist in the
\* document or leaves the document (no tab), or wraps around to the first
\* (last) tab button with tabIndex 0.  tabFocus names the focused tab by its
\* value; of several tabs with that value any may be it, and with no tab
\* focused the key was pressed on another child of the tablist.
tabKeyDefault(focus, shiftKey) ==
    LET tabbable(j) == children[j] # NoValue /\ TabTriggerRender(j).tabIndex = 0
        all == {j \in DOMAIN children : tabbable(j)}
        from == IF focus = NoTab THEN {i \in DOMAIN children : children[i] = NoValue}
                ELSE {i \in DOMAIN children : children[i] # NoValue /\ children[i] = focus}
        ahead(i) == {j \in all : IF shiftKey THEN j < i ELSE j > i}
        nearest(set) ==
            CHOOSE j \in set : \A k \in set : IF shiftKey THEN k <= j ELSE j <= k
        between(i, j) == {k \in DOMAIN children : (i < k /\ k < j) \/ (j < k /\ k < i)}
        outcome(i) ==
            IF ahead(i) = {}
               THEN {NoTab} \cup (IF all = {} THEN {} ELSE {children[nearest(all)]})
               ELSE {children[nearest(ahead(i))]}
                    \cup (IF \E k \in between(i, nearest(ahead(i))) :
                                children[k] = NoValue
                             THEN {NoTab} ELSE {})
    IN (IF focus = NoTab THEN {NoTab} ELSE {}) \cup UNION {outcome(i) : i \in from}

\* The browser's default action of Enter on a focused tab button: a click,
\* whose onClick is onSelect -> handleTabSelect(child.props.value).  The value
\* onValueChange is called with (NoValue = no click).
enterKeyDefault(key, prevented) ==
    IF key = "Enter" /\ ~prevented /\ tabFocus # NoTab THEN tabFocus ELSE NoValue

\* A key press in the tablist: the keydown handler of the tablist element,
\* then the browser's default action of the key unless it was prevented.
\* valueChanges records the calls the keydown handler made.  No handler reads
\* e.shiftKey; it matters to the default action of Tab only.
TabListKeyDown(key, shiftKey) ==
    LET r == handleKeyDown(key)
        clicked == enterKeyDefault(key, r.prevented)
    IN /\ key \in Keys
       /\ lastKey' = key
       /\ valueBefore' = tabValue
       /\ valueChanges' = r.calls
       /\ defaultPrevented' = r.prevented
       /\ tabValue' = IF clicked # NoValue THEN clicked ELSE valueAfter(r.calls)
       /\ pendingFocus' = IF r.calls = <<>> THEN pendingFocus ELSE r.calls[1]
       /\ tabFocus' \in (IF key = "Tab" /\ ~r.prevented
                            THEN tabKeyDefault(tabFocus, shiftKey) ELSE {tabFocus})
       /\ UNCHANGED <<tabListSource, children>>
       /\ TabOnly

\* requestAnimationFrame(() => tabRefs.current.get(nextValue)?.focus()).
TabAnimationFrame ==
    /\ pendingFocus # NoTab
    /\ tabFocus' = pendingFocus
    /\ pendingFocus' = NoTab
    /\ UNCHANGED <<tabListSource, children, tabValue, lastKey, valueBefore,
                   valueChanges, defaultPrevented>>
    /\ TabOnly

\* A click on the i-th child, a TabTrigger: onSelect -> handleTabSelect.
TabTriggerClick(i) ==
    /\ i \in DOMAIN children
    /\ children[i] # NoValue
    /\ tabValue' = children[i]
    /\ tabFocus' = children[i]
    /\ lastKey' = ""
    /\ valueBefore' = tabValue
    /\ valueChanges' = <<children[i]>>
    /\ defaultPrevented' = FALSE
    /\ UNCHANGED <<tabListSource, children, pendingFocus>>
    /\ TabOnly

\* The parent renders the TabList with another value.
TabListSetValue(v) ==
    /\ v \in TabIds \cup {OtherValue}
    /\ v # tabValue
    /\ tabValue' = v
    /\ lastKey' = ""
    /\ valueBefore' = tabValue
    /\ valueChanges' = <<>>
    /\ defaultPrevented' = FALSE
    /\ UNCHANGED <<tabListSource, children, pendingFocus, tabFocus>>
    /\ TabOnly

\* The tabs of the TabList: its children that are TabTriggers, which carry a
\* value (the empty string included), in order; and their positions among the
\* children.
Tabs == SelectSeq(children, LAMBDA v : v # NoValue)
TabPositions == {i \in DOMAIN children : children[i] # NoValue}

IsTabValue(v) == \E k \in DOMAIN Tabs : Tabs[k] = v

\* Position of the (first) tab carrying v.
TabPosition(v) ==
    CHOOSE k \in DOMAIN Tabs : Tabs[k] = v /\ \A j \in DOMAIN Tabs : j < k => Tabs[j] # v

TabAfter(v) == IF TabPosition(v) = Len(Tabs) THEN Tabs[1] ELSE Tabs[TabPosition(v) + 1]
TabBefore(v) == IF TabPosition(v) = 1 THEN Tabs[Len(Tabs)] ELSE Tabs[TabPosition(v) - 1]

\* C3: when the current value is the value of one of the tabs, ArrowDown calls
\* onValueChange (once) with the value of the next tab and ArrowUp with the value
\* of the previous tab, wrapping from the last tab to the first and from the
\* first to the last; when the current value matches no tab, the keydown
\* handler of the TabList calls onValueChange for no key.
C3_ArrowKeysMoveSelection ==
    /\ (lastKey = "ArrowDown" /\ IsTabValue(valueBefore))
          => valueChanges = <<TabAfter(valueBefore)>>
    /\ (lastKey = "ArrowUp" /\ IsTabValue(valueBefore))
          => valueChanges = <<TabBefore(valueBefore)>>
    /\ (lastKey \in Keys /\ ~IsTabValue(valueBefore))
          => valueChanges = <<>>

DistinctTabValues ==
    \A i, j \in TabPositions : i # j => children[i] # children[j]

\* C10: roving tabindex.  When the TabTrigger children have pairwise distinct
\* values, at most one tab has tabIndex 0 and aria-selected true, namely the tab
\* whose value equals the TabList value; every other tab has tabIndex -1 and
\* aria-selected false.
C10_RovingTabIndex ==
    DistinctTabValues =>
        /\ Cardinality({i \in TabPositions : TabTriggerRender(i).tabIndex = 0}) <= 1
        /\ Cardinality({i \in TabPositions : TabTriggerRender(i).ariaSelected}) <= 1
        /\ \A i \in TabPositions :
              IF children[i] = tabValue
                 THEN /\ TabTriggerRender(i).tabIndex = 0
                      /\ TabTriggerRender(i).ariaSelected = TRUE
                 ELSE /\ TabTriggerRender(i).tabIndex = -1
                      /\ TabTriggerRender(i).ariaSelected = FALSE

\* Three distinct tabs rendered by the shared prop builder after an arrow key
\* moved the selection: the new tab is the one in the tab order.
C10_Witness ==
    /\ tabListSource = "part_004"
    /\ DistinctTabValues
    /\ Cardinality(TabPositions) = 3
    /\ lastKey = "ArrowUp"
    /\ valueChanges # <<>>
    /\ \E i \in TabPositions :
          /\ children[i] = tabValue
          /\ TabTriggerRender(i).tabIndex = 0
          /\ \A j \in TabPositions \ {i} : TabTriggerRender(j).tabIndex = -1

TabNext ==
    \/ \E key \in Keys :
          \E shiftKey \in (IF key = "Tab" THEN BOOLEAN ELSE {FALSE}) :
             TabListKeyDown(key, shiftKey)
    \/ TabAnimationFrame
    \/ \E i \in 1..MaxTabs : TabTriggerClick(i)
    \/ \E v \in TabIds \cup {OtherValue} : TabListSetValue(v)

(***************************************************************************)
(* Searchable model pickers: HuggingFace, Ollama, Hicap, Vercel            *)
(***************************************************************************)

\* Bound: number of models the provider offers.
MaxModels == 2

PickerKinds == {"HuggingFaceModelPicker", "OllamaModelPicker", "HicapModelPicker",
                "VercelModelPicker"}

Modes == {"plan", "act"}

\* The ids of the provider's models, already in localeCompare order.
AllModelIds == <<"alpha", "beta", "gamma", "omega">>
searchableItems == SubSeq(AllModelIds, 1, MaxModels)
ModelIdSet == {searchableItems[k] : k \in DOMAIN searchableItems}

\* Texts the user types into the search field.
TypedTexts == {"", "al", "AL"}

\* String.prototype.toLowerCase on the strings of the model.
toLowerCase(text) == IF text = "AL" THEN "al" ELSE text

\* The id a picker shows when the mode has no model configured:
\* huggingFaceDefaultModelId, "gpt-5" for Hicap, "" for Ollama and Vercel.
DefaultModelId(kind) ==
    CASE kind = "HuggingFaceModelPicker" -> "hf-default"
      [] kind = "HicapModelPicker" -> "gpt-5"
      [] OTHER -> ""

OrDefault(kind, id) == IF id = "" THEN DefaultModelId(kind) ELSE id

\* What fuse.search may return: the items it matched, each once, in rank order.
Injective(seq) == \A i, j \in DOMAIN seq : i # j => seq[i] # seq[j]
FuseOutputs ==
    {seq \in UNION {[1..n -> ModelIdSet] : n \in 0..MaxModels} : Injective(seq)}

\* modelSearchResults of a picker: the ids of the rendered results, in order.
modelSearchResultsOf(kind, term, fuseOut, favorites) ==
    LET found == IF term # "" THEN fuseOut ELSE searchableItems
    IN IF kind = "HicapModelPicker"
          THEN SelectSeq(searchableItems, LAMBDA id : id \in favorites)
               \o SelectSeq(found, LAMBDA id : id \notin favorites)
          ELSE found

modelSearchResults ==
    modelSearchResultsOf(pickerKind, searchTerm, fuseResults, favoritedModelIds)

\* The state a picker mounts in for a configuration.
PickerMounted(kind, mode, config, favorites) ==
    /\ pickerKind = kind
    /\ currentMode = mode
    /\ modelId = config
    /\ favoritedModelIds = favorites
    /\ searchTerm = OrDefault(kind, config[mode])
    /\ isDropdownVisible = FALSE
    /\ selectedIndex = IF kind = "HuggingFaceModelPicker" THEN -1 ELSE 0
    /\ fuseResults \in (IF searchTerm = "" THEN {<<>>} ELSE FuseOutputs)
    /\ lastEvent = ""
    /\ committed = ""

PickerIdle ==
    PickerMounted("OllamaModelPicker", "act", [m \in Modes |-> ""], {})

PickerInit ==
    \E kind \in PickerKinds, mode \in Modes,
       config \in [Modes -> ModelIdSet \cup {""}] :
       \E favorites \in (IF kind = "HicapModelPicker" THEN SUBSET ModelIdSet ELSE {{}}) :
          PickerMounted(kind, mode, config, favorites)

\* One render after a handler: the handler asked for the configuration, search
\* term, visibility and index given; the effects that depend on the model ID
\* and on the search term then run, and fuse searches the new term.
PickerRender(newConfig, newTerm, newVisible, newIndex, event, commit) ==
    LET configChanged == newConfig[currentMode] # modelId[currentMode]
        \* "Sync external changes when the modelId changes"
        syncedTerm ==
            IF ~configChanged THEN newTerm
            ELSE IF pickerKind = "OllamaModelPicker"
                    THEN IF newConfig[currentMode] # newTerm
                            THEN newConfig[currentMode] ELSE newTerm
                    ELSE OrDefault(pickerKind, newConfig[currentMode])
        termChanged == syncedTerm # searchTerm
    IN /\ modelId' = newConfig
       /\ searchTerm' = syncedTerm
       /\ isDropdownVisible' = newVisible
       \* useEffect(() => setSelectedIndex(0), [searchTerm]) in all but HuggingFace
       /\ selectedIndex' = IF termChanged /\ pickerKind # "HuggingFaceModelPicker"
                              THEN 0 ELSE newIndex
       /\ IF ~termChanged THEN fuseResults' = fuseResults
          ELSE IF syncedTerm = "" THEN fuseResults' = <<>>
          ELSE fuseResults' \in FuseOutputs
       /\ lastEvent' = event
       /\ committed' = commit
       /\ UNCHANGED <<pickerKind, currentMode, favoritedModelIds>>
       /\ PickerOnly

\* handleModeFieldsChange(..., currentMode) / onModelChange: the configuration
\* with the model ID of the current mode replaced.
handleModeFieldsChange(newModelId) == [modelId EXCEPT ![currentMode] = newModelId]

\* handleModelChange(newModelId): writes the model and sets the search term.
handleModelChange(newModelId, visible, index, event, commit) ==
    PickerRender(handleModeFieldsChange(newModelId), newModelId, visible, index,
                 event, commit)

\* Variant of closeDropdown: closing also clears the search field.
closeDropdownClearingSearch(event) ==
    PickerRender(modelId, "", FALSE, selectedIndex, event, "")

\* closeDropdown: setIsDropdownVisible(false).
closeDropdown(event) ==
    PickerRender(modelId, searchTerm, FALSE, selectedIndex, event, "")

\* Variant of handleListboxSelect: the first result is written, whatever the index.
handleListboxSelectFirst(index, event) ==
    IF index >= 0 /\ index < Len(modelSearchResults)
       THEN handleModelChange(modelSearchResults[1], FALSE, selectedIndex,
                              event, modelSearchResults[index + 1])
       ELSE PickerRender(modelId, searchTerm, isDropdownVisible, selectedIndex,
                         event, "")

\* handleListboxSelect(index).
handleListboxSelect(index, event) ==
    IF index >= 0 /\ index < Len(modelSearchResults)
       THEN handleModelChange(modelSearchResults[index + 1], FALSE, selectedIndex,
                              event, modelSearchResults[index + 1])
       ELSE IF pickerKind = "VercelModelPicker"
               THEN handleModelChange(searchTerm, FALSE, selectedIndex, event, "")
               ELSE PickerRender(modelId, searchTerm, isDropdownVisible, selectedIndex,
                                 event, "")

\* The loop option a picker passes to useListboxNavigation (default: loop).
loopOption == TRUE

\* useListboxNavigation: the index an arrow key moves to.
listboxMove(index, itemCount, forward) ==
    IF itemCount = 0 THEN index
    ELSE IF forward
            THEN IF index + 1 > itemCount - 1
                    THEN (IF loopOption THEN 0 ELSE itemCount - 1) ELSE index + 1
            ELSE IF index - 1 < 0
                    THEN (IF loopOption THEN itemCount - 1 ELSE 0) ELSE index - 1

\* useListboxNavigation.handleKeyDown on the search field: while the listbox is
\* open, the arrows move the index, Enter calls onSelect(selectedIndex) and
\* Escape calls onClose; while it is closed the keys do nothing.
PickerKeyDown(key) ==
    IF ~isDropdownVisible
       THEN PickerRender(modelId, searchTerm, isDropdownVisible, selectedIndex, "", "")
    ELSE CASE key = "ArrowDown" ->
                PickerRender(modelId, searchTerm, isDropdownVisible,
                             listboxMove(selectedIndex, Len(modelSearchResults), TRUE),
                             "", "")
           [] key = "ArrowUp" ->
                PickerRender(modelId, searchTerm, isDropdownVisible,
                             listboxMove(selectedIndex, Len(modelSearchResults), FALSE),
                             "", "")
           [] key = "Enter" -> handleListboxSelect(selectedIndex, "Enter")
           [] key = "Escape" -> closeDropdown("Escape")
           [] OTHER -> PickerRender(modelId, searchTerm, isDropdownVisible,
                                    selectedIndex, "", "")

\* onFocus of the search field.
PickerFocus ==
    /\ pickerKind \in PickerKinds
    /\ PickerRender(modelId, searchTerm, TRUE, selectedIndex, "", "")

\* onInput of the search field.
PickerInput(text) ==
    CASE pickerKind = "HuggingFaceModelPicker" ->
            PickerRender(modelId, text, TRUE, 0, "", "")
      [] pickerKind = "OllamaModelPicker" ->
            handleModelChange(text, TRUE, selectedIndex, "", "")
      [] OTHER ->
            PickerRender(modelId, toLowerCase(text), TRUE, selectedIndex, "", "")

\* The "Clear search" button, rendered while the search term is not empty.
PickerClear ==
    /\ searchTerm # ""
    /\ IF pickerKind = "OllamaModelPicker"
          THEN handleModelChange("", TRUE, selectedIndex, "", "")
          ELSE PickerRender(modelId, "", TRUE, selectedIndex, "", "")

\* The dropdown is rendered, with its result buttons.
ResultsRendered ==
    /\ isDropdownVisible
    /\ pickerKind = "OllamaModelPicker" => Len(modelSearchResults) > 0

\* onClick of the i-th result (1-based).
PickerItemClick(i) ==
    /\ ResultsRendered
    /\ i \in DOMAIN modelSearchResults
    /\ handleModelChange(modelSearchResults[i], FALSE, selectedIndex, "Click",
                         modelSearchResults[i])

\* onMouseEnter of the i-th result (1-based): setSelectedIndex(index).
PickerItemMouseEnter(i) ==
    /\ ResultsRendered
    /\ i \in DOMAIN modelSearchResults
    /\ PickerRender(modelId, searchTerm, isDropdownVisible, i - 1, "", "")

\* handleClickOutside: a mousedown outside the dropdown wrapper.
PickerClickOutside ==
    /\ pickerKind \in PickerKinds
    /\ PickerRender(modelId, searchTerm, FALSE, selectedIndex, "", "")

\* VercelModelPicker onBlur: a search term that differs from the selected model
\* is written as the model.
PickerBlur ==
    /\ pickerKind = "VercelModelPicker"
    /\ IF searchTerm # modelId[currentMode]
          THEN handleModelChange(searchTerm, isDropdownVisible, selectedIndex, "", "")
          ELSE PickerRender(modelId, searchTerm, isDropdownVisible, selectedIndex, "", "")

\* The extension state delivers a configuration changed elsewhere.
PickerConfigurationChanged(mode, id) ==
    /\ modelId[mode] # id
    /\ PickerRender([modelId EXCEPT ![mode] = id], searchTerm, isDropdownVisible,
                    selectedIndex, "", "")

\* The keys pressed on the search field: those the listbox handles and one it
\* does not.
PickerKeys == {"ArrowDown", "ArrowUp", "Enter", "Escape", "Tab"}

PickerNext ==
    \/ \E key \in PickerKeys : PickerKeyDown(key)
    \/ PickerFocus
    \/ \E text \in TypedTexts : PickerInput(text)
    \/ PickerClear
    \/ \E i \in 1..MaxModels : PickerItemClick(i)
    \/ \E i \in 1..MaxModels : PickerItemMouseEnter(i)
    \/ PickerClickOutside
    \/ PickerBlur
    \/ \E mode \in Modes, id \in ModelIdSet \cup {""} : PickerConfigurationChanged(mode, id)

(***************************************************************************)
(* Focus management: getFocusableElements, createFocusTrapHandler,         *)
(* useFocusTrap, useFocusRestoration, useModal                             *)
(***************************************************************************)

\* Bound: number of elements inside the trap container.
MaxElements == 3

\* Bound: number of Escape presses counted for a modal.
MaxPresses == 2

\* The elements a container is made of.
ElementKinds == {"button", "input", "div", "disabledButton", "ariaHiddenButton",
                 "negativeTabindexButton"}

tagName(kind) ==
    IF kind = "input" THEN "INPUT" ELSE IF kind = "div" THEN "DIV" ELSE "BUTTON"

hasDisabled(kind) == kind = "disabledButton"
hasAriaHidden(kind) == kind = "ariaHiddenButton"

\* The tabindex attribute ("" = no attribute).
tabindexAttr(kind) == IF kind = "negativeTabindexButton" THEN "-1" ELSE ""

\* FOCUSABLE_SELECTOR (no element of the model has href).
matchesFocusableSelector(kind) ==
    \/ tagName(kind) \in {"BUTTON", "INPUT", "SELECT", "TEXTAREA"}
    \/ tabindexAttr(kind) \notin {"", "-1"}

\* The document is the trigger button, the container's elements and one more
\* background element, in this order.  An element is named by its position in
\* the document; 0 is document.body (nothing focused), -1 is null.
Body == 0
Null == -1
TriggerPos == 1
ContainerPos(elements) == {i + 1 : i \in DOMAIN elements}
OpenerPos(elements) == Len(elements) + 2
kindOf(elements, pos) ==
    IF pos \in ContainerPos(elements) THEN elements[pos - 1] ELSE "button"

\* container.querySelectorAll(FOCUSABLE_SELECTOR): matches in document order.
querySelectorAll(elements) ==
    SelectSeq([i \in DOMAIN elements |-> i + 1],
              LAMBDA pos : matchesFocusableSelector(kindOf(elements, pos)))

\* getFocusableElements(container, prioritizeInputs).
getFocusableElements(elements, prioritizeInputs) ==
    LET found == SelectSeq(querySelectorAll(elements),
                           LAMBDA pos : /\ ~hasDisabled(kindOf(elements, pos))
                                        /\ ~hasAriaHidden(kindOf(elements, pos)))
        isInput(pos) == tagName(kindOf(elements, pos)) \in {"INPUT", "TEXTAREA"}
    IN IF ~prioritizeInputs THEN found
       ELSE SelectSeq(found, isInput) \o SelectSeq(found, LAMBDA pos : ~isInput(pos))

\* Elements the browser reaches with Tab, and elements a click can focus.
Tabbable(kind) == kind \in {"button", "input", "ariaHiddenButton"}
ClickFocusable(kind) == Tabbable(kind) \/ kind = "negativeTabindexButton"

\* The browser's sequential focus order: tabbable elements in document order.
tabOrder(elements, triggerThere, rendered, openerThere) ==
    (IF triggerThere THEN <<TriggerPos>> ELSE <<>>)
    \o (IF rendered
           THEN SelectSeq([i \in DOMAIN elements |-> i + 1],
                          LAMBDA pos : Tabbable(kindOf(elements, pos)))
           ELSE <<>>)
    \o (IF openerThere THEN <<OpenerPos(elements)>> ELSE <<>>)

\* The browser's default action for Tab / Shift+Tab: the elements focus may
\* be on afterwards.  From an element it is the next / previous element of the
\* order; past an end of the order the browser either wraps around or moves
\* focus out of the document (document.activeElement is then the body).  With
\* nothing focused the browser goes on from its focus navigation starting
\* point (the place of the last click or of a removed element), which the
\* document does not show.
browserTab(order, active, shiftKey) ==
    LET later == SelectSeq(order, LAMBDA pos : pos > active)
        earlier == SelectSeq(order, LAMBDA pos : pos < active)
    IN IF active = Body \/ order = <<>>
          THEN {order[i] : i \in DOMAIN order} \cup {Body}
       ELSE IF shiftKey
          THEN IF earlier # <<>> THEN {earlier[Len(earlier)]}
                                 ELSE {order[Len(order)], Body}
          ELSE IF later # <<>> THEN {later[1]} ELSE {order[1], Body}

\* Key presses: Tab, Shift+Tab, Escape and a key no handler looks at.
KeyEvents == {[key |-> "Tab", shiftKey |-> FALSE], [key |-> "Tab", shiftKey |-> TRUE],
              [key |-> "Escape", shiftKey |-> FALSE], [key |-> "Enter", shiftKey |-> FALSE]}

Unhandled(active) == [prevented |-> FALSE, focus |-> active, onEscape |-> FALSE]
Handled(focus) == [prevented |-> TRUE, focus |-> focus, onEscape |-> FALSE]

\* createFocusTrapHandler(containerRef, options)(e), with the container mounted.
createFocusTrapHandler(elements, active, e, hasOnEscape) ==
    LET focusableElements == getFocusableElements(elements, TRUE)
        firstElement == focusableElements[1]
        lastElement == focusableElements[Len(focusableElements)]
    IN IF e.key = "Escape" /\ hasOnEscape
          THEN [prevented |-> TRUE, focus |-> active, onEscape |-> TRUE]
       ELSE IF e.key # "Tab" THEN Unhandled(active)
       ELSE IF Len(focusableElements) = 0 THEN Unhandled(active)
       ELSE IF e.shiftKey /\ active = firstElement THEN Handled(lastElement)
       ELSE IF ~e.shiftKey /\ active = lastElement THEN Handled(firstElement)
       ELSE Unhandled(active)

\* useFocusTrap's handleTabKey(e); inside = the positions container.contains.
handleTabKey(elements, inside, active, e) ==
    LET focusableElements == getFocusableElements(elements, TRUE)
        firstElement == focusableElements[1]
        lastElement == focusableElements[Len(focusableElements)]
    IN IF e.key # "Tab" THEN Unhandled(active)
       ELSE IF Len(focusableElements) = 0 THEN Handled(active)
       ELSE IF e.shiftKey
               THEN IF active = firstElement \/ active \notin inside
                       THEN Handled(lastElement) ELSE Unhandled(active)
               ELSE IF active = lastElement \/ active \notin inside
                       THEN Handled(firstElement) ELSE Unhandled(active)

\* useFocusTrap's effect body when the trap activates: "Focus first element
\* when trap activates".
focusTrapEffect(elements, inside, active) ==
    LET focusableElements == getFocusableElements(elements, TRUE)
    IN IF Len(focusableElements) > 0 /\ active \notin inside
          THEN focusableElements[1] ELSE active

\* focusFirstElement(container, initialFocusRef); initialFocus is
\* initialFocusRef.current (Null when the ref is absent or unset).  focus()
\* does nothing on an element that cannot take focus.
focusFirstElement(elements, active, initialFocus) ==
    LET focusableElements == getFocusableElements(elements, TRUE)
    IN IF initialFocus # Null
          THEN IF ClickFocusable(kindOf(elements, initialFocus))
                  THEN initialFocus ELSE active
       ELSE IF Len(focusableElements) > 0 THEN focusableElements[1]
       ELSE active

\* Where focus may be after a key press: where the handler put it, or where the
\* browser's default action for Tab puts it when the handler did not prevent it.
focusAfterKey(result, order, active, e) ==
    IF result.prevented THEN {result.focus}
    ELSE IF e.key = "Tab" THEN browserTab(order, active, e.shiftKey)
    ELSE {active}

\* ---- state-dependent views of the document ----

\* The container is in the document: always for a bare trap, and while the
\* modal is open for useModal ({isVisible && <div ref={containerRef}>}).
containerRendered == trapKind # "useModal" \/ (modalMounted /\ isActive)

\* The positions container.contains() answers true for.
inside == IF containerRendered THEN ContainerPos(containerElements) ELSE {}

\* The trigger button is in the document: always when it belongs to the
\* parent, and while the component is mounted when the component renders it
\* (<button ref={triggerRef}> of useModal's examples).
triggerRendered == ~triggerInComponent \/ modalMounted

order == tabOrder(containerElements, triggerRendered, containerRendered, openerInDocument)

InDocument(pos) ==
    \/ pos = TriggerPos /\ triggerRendered
    \/ pos \in inside
    \/ pos = OpenerPos(containerElements) /\ openerInDocument

Containers == UNION {[1..n -> ElementKinds] : n \in 0..MaxElements}

\* The dialogs a modal is checked with: one button; a button followed by a
\* search field; no focusable element.
ModalContainers == {<<"button">>, <<"button", "input">>, <<"div">>}

OnCloseVersions == {"onClose#1", "onClose#2"}

NoKeyRecord ==
    /\ lastTrapKey' = ""
    /\ focusBefore' = Body
    /\ onEscapeCalled' = FALSE

TrapIdle ==
    /\ trapKind = "useFocusTrap"
    /\ containerElements = <<>>
    /\ activeElement = Body
    /\ isActive = FALSE
    /\ trapListener = FALSE
    /\ onEscapeProvided = FALSE
    /\ lastTrapKey = ""
    /\ focusBefore = Body
    /\ onEscapeCalled = FALSE

ModalIdle ==
    /\ modalMounted = FALSE
    /\ triggerRefSet = FALSE
    /\ triggerInComponent = FALSE
    /\ openerInDocument = TRUE
    /\ previousActiveElement = Null
    /\ focusAtMount = Null
    /\ escapeListeners = {}
    /\ onCloseProp = "onClose#1"
    /\ onCloseCalls = 0
    /\ openEscapes = 0
    /\ modalEvent = ""

FocusIdle == TrapIdle /\ ModalIdle

\* A container with a trap that is not yet active; focus is in the background.
TrapInit ==
    /\ trapKind \in {"useFocusTrap", "createFocusTrapHandler"}
    /\ containerElements \in Containers
    /\ activeElement \in {Body, TriggerPos}
    /\ isActive = FALSE
    /\ trapListener = FALSE
    /\ onEscapeProvided \in (IF trapKind = "createFocusTrapHandler" THEN BOOLEAN ELSE {FALSE})
    /\ lastTrapKey = ""
    /\ focusBefore = Body
    /\ onEscapeCalled = FALSE
    /\ ModalIdle

\* useFocusTrap(isActive, containerRef): isActive becomes true, the effect runs.
TrapActivate ==
    /\ trapKind = "useFocusTrap"
    /\ ~isActive
    /\ isActive' = TRUE
    /\ activeElement' = focusTrapEffect(containerElements, inside, activeElement)
    /\ trapListener' = TRUE
    /\ NoKeyRecord
    /\ UNCHANGED <<trapKind, containerElements, onEscapeProvided>>
    /\ FocusOnly

\* isActive becomes false: the effect's cleanup removes the listener.
TrapDeactivate ==
    /\ trapKind = "useFocusTrap"
    /\ isActive
    /\ isActive' = FALSE
    /\ trapListener' = FALSE
    /\ NoKeyRecord
    /\ UNCHANGED <<trapKind, containerElements, onEscapeProvided, activeElement>>
    /\ FocusOnly

\* What the trap's keydown handler does with a key press: useFocusTrap listens
\* on the document while active, createFocusTrapHandler is the container's
\* onKeyDown and sees the keys pressed on an element inside it.
trapKeyResult(e) ==
    IF trapKind = "createFocusTrapHandler"
       THEN IF activeElement \in inside
               THEN createFocusTrapHandler(containerElements, activeElement, e,
                                           onEscapeProvided)
               ELSE Unhandled(activeElement)
       ELSE IF trapListener
               THEN handleTabKey(containerElements, inside, activeElement, e)
               ELSE Unhandled(activeElement)

\* A key press with a bare trap.
TrapKeyDown(e) ==
    /\ trapKind \in {"useFocusTrap", "createFocusTrapHandler"}
    /\ activeElement' \in focusAfterKey(trapKeyResult(e), order, activeElement, e)
    /\ lastTrapKey' = IF e.key = "Tab" /\ e.shiftKey THEN "Shift+Tab" ELSE e.key
    /\ focusBefore' = activeElement
    /\ onEscapeCalled' = trapKeyResult(e).onEscape
    /\ UNCHANGED <<trapKind, containerElements, onEscapeProvided, isActive, trapListener>>
    /\ FocusOnly

\* A component calls focusFirstElement on the container of a bare trap.
FocusFirstElement(initialFocus) ==
    /\ trapKind \in {"useFocusTrap", "createFocusTrapHandler"}
    /\ initialFocus = Null \/ InDocument(initialFocus)
    /\ activeElement' = focusFirstElement(containerElements, activeElement, initialFocus)
    /\ NoKeyRecord
    /\ UNCHANGED <<trapKind, containerElements, onEscapeProvided, isActive, trapListener>>
    /\ FocusOnly

\* The user clicks an element of the document: an element that can take focus
\* is focused, a click on any other element leaves nothing focused.  Neither
\* trap listens to mouse events.
UserFocus(pos) ==
    /\ InDocument(pos)
    /\ activeElement' = IF ClickFocusable(kindOf(containerElements, pos))
                           THEN pos ELSE Body
    /\ modalEvent' = ""
    /\ NoKeyRecord
    /\ UNCHANGED <<trapKind, containerElements, onEscapeProvided, isActive, trapListener,
                   modalMounted, triggerRefSet, triggerInComponent, openerInDocument,
                   previousActiveElement, focusAtMount, escapeListeners, onCloseProp,
                   onCloseCalls, openEscapes>>
    /\ ModalOnly

FocusNext ==
    \/ TrapActivate
    \/ TrapDeactivate
    \/ \E e \in KeyEvents : TrapKeyDown(e)
    \/ \E initialFocus \in {Null} \cup (1..(MaxElements + 2)) :
          FocusFirstElement(initialFocus)
    \/ \E pos \in 1..(MaxElements + 2) : UserFocus(pos)

\* ---- useModal ----

\* Variant of escapeEffect: the effect returns no cleanup.
escapeEffectNoCleanup(isOpen, listeners, onClose) ==
    IF isOpen THEN listeners \cup {onClose} ELSE listeners

\* useModal's Escape effect, deps [isOpen, onClose]: the cleanup removes the
\* listener of the previous run, the body registers handleEscape while isOpen.
escapeEffect(isOpen, listeners, onClose) ==
    IF isOpen THEN {onClose} ELSE {}

\* A modal that is not mounted yet; focus is in the background.
ModalInit ==
    /\ trapKind = "useModal"
    /\ containerElements \in ModalContainers
    /\ triggerInComponent \in BOOLEAN
    /\ activeElement \in {Body, OpenerPos(containerElements)}
                         \cup (IF triggerInComponent THEN {} ELSE {TriggerPos})
    /\ isActive = FALSE
    /\ trapListener = FALSE
    /\ onEscapeProvided = FALSE
    /\ lastTrapKey = ""
    /\ focusBefore = Body
    /\ onEscapeCalled = FALSE
    /\ modalMounted = FALSE
    /\ triggerRefSet \in BOOLEAN
    /\ openerInDocument = TRUE
    /\ previousActiveElement = Null
    /\ focusAtMount = Null
    /\ escapeListeners = {}
    /\ onCloseProp = "onClose#1"
    /\ onCloseCalls = 0
    /\ openEscapes = 0
    /\ modalEvent = ""

ModalFrame ==
    /\ UNCHANGED <<trapKind, containerElements, onEscapeProvided, lastTrapKey,
                   focusBefore, onEscapeCalled, triggerInComponent>>
    /\ ModalOnly

\* A commit of the mounted component with props isOpen and onClose, focus being
\* at focusNow before it: the container enters or leaves the document, then the
\* effects of useFocusTrap and the Escape effect run.  useFocusRestoration's
\* effect depends on [restoreTargetRef] only and does not run.
ModalCommit(isOpen, onClose, focusNow) ==
    LET opened == isOpen /\ ~isActive
        closed == ~isOpen /\ isActive
        afterDom == IF closed /\ focusNow \in inside THEN Body ELSE focusNow
        afterTrap == IF opened
                        THEN focusTrapEffect(containerElements, {}, afterDom)
                        ELSE afterDom
    IN /\ isActive' = isOpen
       /\ trapListener' = isOpen
       /\ activeElement' = afterTrap
       /\ escapeListeners' = escapeEffect(isOpen, escapeListeners, onClose)
       /\ onCloseProp' = onClose
       /\ modalEvent' = IF closed THEN "close" ELSE ""

\* The component that calls useModal(isOpen, onClose, triggerRef) mounts.
\* Effects run in hook order: useFocusTrap, useFocusRestoration, Escape.
ModalMount(isOpen) ==
    /\ ~modalMounted
    /\ modalMounted' = TRUE
    /\ isActive' = isOpen
    /\ trapListener' = isOpen
    /\ activeElement' = IF isOpen
                           THEN focusTrapEffect(containerElements, {}, activeElement)
                           ELSE activeElement
    /\ previousActiveElement' = activeElement'
    /\ focusAtMount' = activeElement
    /\ escapeListeners' = escapeEffect(isOpen, escapeListeners, onCloseProp)
    /\ modalEvent' = ""
    /\ UNCHANGED <<triggerRefSet, openerInDocument, onCloseProp, onCloseCalls, openEscapes>>
    /\ ModalFrame

\* The parent changes isOpen.
ModalSetOpen(isOpen) ==
    /\ modalMounted
    /\ isOpen # isActive
    /\ ModalCommit(isOpen, onCloseProp, activeElement)
    /\ UNCHANGED <<modalMounted, triggerRefSet, openerInDocument, previousActiveElement,
                   focusAtMount, onCloseCalls, openEscapes>>
    /\ ModalFrame

\* The parent re-renders with a new onClose closure.
ModalRerender(onClose) ==
    /\ modalMounted
    /\ onClose # onCloseProp
    /\ ModalCommit(isActive, onClose, activeElement)
    /\ UNCHANGED <<modalMounted, triggerRefSet, openerInDocument, previousActiveElement,
                   focusAtMount, onCloseCalls, openEscapes>>
    /\ ModalFrame

\* A key press: handleTabKey on the document while the trap listens, the
\* browser's default action, and every registered handleEscape on the window.
\* onClose is the parent's; it may or may not close the modal.
ModalKeyDown(e) ==
    LET result == IF trapListener
                     THEN handleTabKey(containerElements, inside, activeElement, e)
                     ELSE Unhandled(activeElement)
        handlerCalls == IF e.key = "Escape" THEN Cardinality(escapeListeners) ELSE 0
        whileOpen == e.key = "Escape" /\ modalMounted /\ isActive
    IN /\ e.key = "Escape" => (onCloseCalls < MaxPresses /\ openEscapes < MaxPresses)
       /\ onCloseCalls' = onCloseCalls + handlerCalls
       /\ openEscapes' = openEscapes + (IF whileOpen THEN 1 ELSE 0)
       /\ \E closes \in (IF handlerCalls > 0 /\ isActive THEN BOOLEAN ELSE {FALSE}),
             focusNow \in focusAfterKey(result, order, activeElement, e) :
             ModalCommit(isActive /\ ~closes, onCloseProp, focusNow)
       /\ UNCHANGED <<modalMounted, triggerRefSet, openerInDocument,
                      previousActiveElement, focusAtMount>>
       /\ ModalFrame

\* The cleanup of useFocusRestoration's effect, focus being at active,
\* refCurrent telling whether restoreTargetRef.current is an element and
\* contained being the elements document.contains answers true for: where
\* focus is afterwards.  focus() on the body moves nothing.
focusRestorationCleanup(active, refCurrent, contained) ==
    IF refCurrent THEN TriggerPos
    ELSE IF previousActiveElement \notin {Null, Body} /\ previousActiveElement \in contained
            THEN previousActiveElement
    ELSE active

\* The component unmounts: what it rendered (the container, and the trigger
\* when the component renders it) leaves the document, which detaches the ref
\* of a removed trigger, and the cleanups run, useFocusRestoration's among
\* them.  React runs the cleanups of an unmounting component after it removed
\* the DOM nodes (React 17 and later) or before (earlier versions); the sources
\* do not fix the version.
ModalUnmount ==
    LET leaving == inside \cup (IF triggerInComponent THEN {TriggerPos} ELSE {})
        removed(focus) == IF focus \in leaving THEN Body ELSE focus
        remaining == (IF triggerInComponent THEN {} ELSE {TriggerPos})
                     \cup (IF openerInDocument THEN {OpenerPos(containerElements)} ELSE {})
        cleanupAfterRemoval ==
            focusRestorationCleanup(removed(activeElement),
                                    triggerRefSet /\ ~triggerInComponent, remaining)
        cleanupBeforeRemoval ==
            removed(focusRestorationCleanup(activeElement, triggerRefSet,
                                            remaining \cup leaving))
    IN /\ modalMounted
       /\ modalMounted' = FALSE
       /\ isActive' = FALSE
       /\ trapListener' = FALSE
       /\ escapeListeners' = {}
       /\ activeElement' \in {cleanupAfterRemoval, cleanupBeforeRemoval}
       /\ previousActiveElement' = Null
       /\ modalEvent' = "unmount"
       /\ UNCHANGED <<triggerRefSet, openerInDocument, focusAtMount, onCloseProp,
                      onCloseCalls, openEscapes>>
       /\ ModalFrame

\* The trigger button's ref is attached or detached.
ModalTriggerRef ==
    /\ triggerRefSet' = ~triggerRefSet
    /\ modalEvent' = ""
    /\ UNCHANGED <<activeElement, isActive, trapListener, modalMounted, openerInDocument,
                   previousActiveElement, focusAtMount, escapeListeners, onCloseProp,
                   onCloseCalls, openEscapes>>
    /\ ModalFrame

\* The background element is removed from the document.
OpenerRemoved ==
    /\ openerInDocument
    /\ openerInDocument' = FALSE
    /\ activeElement' = IF activeElement = OpenerPos(containerElements)
                           THEN Body ELSE activeElement
    /\ modalEvent' = ""
    /\ UNCHANGED <<isActive, trapListener, modalMounted, triggerRefSet,
                   previousActiveElement, focusAtMount, escapeListeners, onCloseProp,
                   onCloseCalls, openEscapes>>
    /\ ModalFrame

ModalNext ==
    \/ \E isOpen \in BOOLEAN : ModalMount(isOpen)
    \/ \E isOpen \in BOOLEAN : ModalSetOpen(isOpen)
    \/ \E onClose \in OnCloseVersions : ModalRerender(onClose)
    \/ \E e \in KeyEvents : ModalKeyDown(e)
    \/ ModalUnmount
    \/ ModalTriggerRef
    \/ OpenerRemoved
    \/ \E pos \in 1..(MaxElements + 2) : UserFocus(pos)

(***************************************************************************)
(* Toggle button: createToggleButtonProps, createEscapeHandler             *)
(***************************************************************************)

\* An argument that was not passed.
Undefined == "<undefined>"

\* An optional boolean argument.
OptionalBoolean == {Undefined, "true", "false"}

\* The ariaLabel arguments: none, the empty string, a label.
AriaLabels == {Undefined, "", "Toggle section"}

\* JavaScript truthiness of a string-or-undefined value.
TruthyString(v) == v # Undefined /\ v # ""

\* The keys pressed on a button: Escape, the two keys that click a native
\* button, and keys that do nothing to it.
ButtonKeys == {"Escape", "Enter", " ", "a", "Tab", "ArrowDown"}

\* createEscapeHandler(onEscape)(e).
createEscapeHandler(key) ==
    [called |-> key = "Escape", prevented |-> key = "Escape"]

\* Variant of createToggleButtonProps: the Escape handler is attached whenever
\* collapseOnEscape is set, expanded or not.
createToggleButtonPropsAlwaysEscape(expanded, label, onEscape) ==
    [type |-> "button",
     ariaExpanded |-> expanded,
     ariaLabel |-> IF TruthyString(label) THEN label
                   ELSE IF expanded THEN "Collapse" ELSE "Expand",
     onClick |-> "onToggle",
     onKeyDown |-> IF onEscape = "true"
                      THEN "createEscapeHandler(onToggle)" ELSE Undefined]

\* createToggleButtonProps(isExpanded, onToggle, ariaLabel, collapseOnEscape).
createToggleButtonProps(expanded, label, onEscape) ==
    [type |-> "button",
     ariaExpanded |-> expanded,
     ariaLabel |-> IF TruthyString(label) THEN label
                   ELSE IF expanded THEN "Collapse" ELSE "Expand",
     onClick |-> "onToggle",
     onKeyDown |-> IF onEscape = "true" /\ expanded
                      THEN "createEscapeHandler(onToggle)" ELSE Undefined]

\* A toggle that was never touched.
ToggleMounted(expanded, label, onEscape) ==
    /\ isExpanded = expanded
    /\ ariaLabel = label
    /\ collapseOnEscape = onEscape
    /\ toggleProps = createToggleButtonProps(expanded, label, onEscape)
    /\ lastToggleEvent = ""
    /\ expandedBefore = expanded
    /\ onToggleCalls = 0

ToggleIdle == ToggleMounted(FALSE, Undefined, Undefined)

ToggleInit ==
    \E expanded \in BOOLEAN, label \in AriaLabels, onEscape \in OptionalBoolean :
        ToggleMounted(expanded, label, onEscape)

\* An event that called onToggle the given number of times: each call is the
\* consumer's setIsExpanded(!isExpanded); the button is rendered again.
ToggleEvent(event, toggleCalls) ==
    /\ isExpanded' = IF toggleCalls = 1 THEN ~isExpanded ELSE isExpanded
    /\ toggleProps' = createToggleButtonProps(isExpanded', ariaLabel, collapseOnEscape)
    /\ lastToggleEvent' = event
    /\ expandedBefore' = isExpanded
    /\ onToggleCalls' = toggleCalls
    /\ UNCHANGED <<ariaLabel, collapseOnEscape>>
    /\ ToggleOnly

\* onClick: onToggle.
ToggleClick ==
    /\ toggleProps.onClick = "onToggle"
    /\ ToggleEvent("click", 1)

\* A key press on the button: props.onKeyDown if the last render set it, then
\* the native click of a <button> for Enter and Space unless prevented.
ToggleKeyDown(key) ==
    LET handled == IF toggleProps.onKeyDown # Undefined
                      THEN createEscapeHandler(key)
                      ELSE [called |-> FALSE, prevented |-> FALSE]
        nativeClick == key \in {"Enter", " "} /\ ~handled.prevented
    IN /\ key \in ButtonKeys
       /\ ToggleEvent(key, (IF handled.called THEN 1 ELSE 0)
                           + (IF nativeClick THEN 1 ELSE 0))

\* The parent passes other arguments; the button is rendered again.
ToggleRerender(label, onEscape) ==
    /\ <<label, onEscape>> # <<ariaLabel, collapseOnEscape>>
    /\ ariaLabel' = label
    /\ collapseOnEscape' = onEscape
    /\ toggleProps' = createToggleButtonProps(isExpanded, label, onEscape)
    /\ lastToggleEvent' = ""
    /\ expandedBefore' = isExpanded
    /\ onToggleCalls' = 0
    /\ UNCHANGED isExpanded
    /\ ToggleOnly

ToggleNext ==
    \/ ToggleClick
    \/ \E key \in ButtonKeys : ToggleKeyDown(key)
    \/ \E label \in AriaLabels, onEscape \in OptionalBoolean : ToggleRerender(label, onEscape)

(***************************************************************************)
(* A group navigated with createArrowKeyNavigationHandler                  *)
(***************************************************************************)

\* Bound: number of items in the group.
MaxItems == 3

Orientations == {"unset", "horizontal", "vertical", "both"}

\* The options objects: which callbacks are given, the orientation and the
\* wrap option.
NavOptions ==
    [onNext : BOOLEAN, onPrev : BOOLEAN, onFirst : BOOLEAN, onLast : BOOLEAN,
     orientation : Orientations, wrap : OptionalBoolean]

\* The callbacks a group gives to the handler, as TabList does: the index each
\* of them navigates to from the current one.
navCallbackTarget(callback, currentIndex, count) ==
    CASE callback = "onNext" -> (currentIndex + 1) % count
      [] callback = "onPrev" -> (currentIndex - 1 + count) % count
      [] callback = "onFirst" -> 0
      [] callback = "onLast" -> count - 1
      [] OTHER -> currentIndex

NavMounted(options, count, index) ==
    /\ navOptions = options
    /\ navCount = count
    /\ navIndex = index
    /\ lastNavKey = ""
    /\ navIndexBefore = index
    /\ navCallback = "none"
    /\ navPrevented = FALSE

NavIdle ==
    NavMounted([onNext |-> FALSE, onPrev |-> FALSE, onFirst |-> FALSE, onLast |-> FALSE,
                orientation |-> "unset", wrap |-> Undefined], 1, 0)

NavInit ==
    \E options \in NavOptions, count \in 1..MaxItems :
        \E index \in 0..(count - 1) : NavMounted(options, count, index)

\* A key press on the group: the handler runs and the callback it calls moves
\* the current item.
NavKeyDown(key) ==
    LET result == createArrowKeyNavigationHandler(navOptions, key)
    IN /\ navIndex' = navCallbackTarget(result.callback, navIndex, navCount)
       /\ lastNavKey' = key
       /\ navIndexBefore' = navIndex
       /\ navCallback' = result.callback
       /\ navPrevented' = result.prevented
       /\ UNCHANGED <<navOptions, navCount>>
       /\ NavOnly

NavNext == \E key \in Keys : NavKeyDown(key)

(***************************************************************************)
(* Elements activated with createKeyboardActivationHandler                 *)
(***************************************************************************)

\* Bound: number of activations counted.
MaxActivations == 3

\* The elements that carry the handler: FeaturedModelCard (a native <button>)
\* and the divs with createInteractiveDivProps,
\* createInteractiveDivModalTriggerProps and createListboxOptionProps.
ActivationElements == {"FeaturedModelCard", "createInteractiveDivProps",
                       "createInteractiveDivModalTriggerProps",
                       "createListboxOptionProps"}

\* The keys pressed on the element: e.key is " " for the space bar.
ActivationKeys == {"Enter", " ", "Spacebar", "a", "Escape", "Tab"}

\* Variant of createKeyboardActivationHandler: only Enter activates.
createKeyboardActivationHandlerEnterOnly(key) ==
    IF key = "Enter"
       THEN [calls |-> 1, prevented |-> TRUE]
       ELSE [calls |-> 0, prevented |-> FALSE]

\* createKeyboardActivationHandler(handler)(e): how often it calls handler and
\* whether it prevents the default.
createKeyboardActivationHandler(key) ==
    IF key = "Enter" \/ key = " "
       THEN [calls |-> 1, prevented |-> TRUE]
       ELSE [calls |-> 0, prevented |-> FALSE]

\* The element's onKeyDown is a handler of createKeyboardActivationHandler; a
\* disabled listbox option gets () => {} for onClick and onKeyDown instead.
HasActivationHandler ==
    ~(activationElement = "createListboxOptionProps" /\ isDisabled)

ActivationMounted(element, disabled) ==
    /\ activationElement = element
    /\ isDisabled = disabled
    /\ activations = 0
    /\ lastActivationKey = ""
    /\ keyHandlerCalls = 0
    /\ nativeClicks = 0
    /\ activationPrevented = FALSE

ActivationIdle == ActivationMounted("createInteractiveDivProps", FALSE)

ActivationInit ==
    \E element \in ActivationElements :
        \E disabled \in (IF element = "createListboxOptionProps" THEN BOOLEAN ELSE {FALSE}) :
            ActivationMounted(element, disabled)

\* onClick of the element.
ActivationClick ==
    /\ activations < MaxActivations
    /\ activations' = activations + (IF HasActivationHandler THEN 1 ELSE 0)
    /\ lastActivationKey' = "click"
    /\ keyHandlerCalls' = 0
    /\ nativeClicks' = 0
    /\ activationPrevented' = FALSE
    /\ UNCHANGED <<activationElement, isDisabled>>
    /\ ActivationOnly

\* The clicks the browser may make from a key press on the element: none on a
\* div; on the native button one for Enter unless the keydown was prevented,
\* and one for Space, made on keyup, which browsers differ in suppressing when
\* the keydown was prevented.
NativeClicks(key, prevented) ==
    IF activationElement # "FeaturedModelCard" THEN {0}
    ELSE IF key = "Enter" THEN (IF prevented THEN {0} ELSE {1})
    ELSE IF key = " " THEN (IF prevented THEN {0, 1} ELSE {1})
    ELSE {0}

\* A key press on the element: its onKeyDown, then the browser's click.
ActivationKeyDown(key) ==
    LET result == IF HasActivationHandler
                     THEN createKeyboardActivationHandler(key)
                     ELSE [calls |-> 0, prevented |-> FALSE]
    IN \E clicks \in NativeClicks(key, result.prevented) :
          /\ activations + result.calls + clicks <= MaxActivations
          /\ activations' = activations + result.calls + clicks
          /\ lastActivationKey' = key
          /\ keyHandlerCalls' = result.calls
          /\ nativeClicks' = clicks
          /\ activationPrevented' = result.prevented
          /\ UNCHANGED <<activationElement, isDisabled>>
          /\ ActivationOnly

ActivationNext ==
    \/ ActivationClick
    \/ \E key \in ActivationKeys : ActivationKeyDown(key)

(***************************************************************************)
(* RPC call sites                                                          *)
(***************************************************************************)

\* Bound: number of RPC promises created in one run.
MaxCalls == 2

Views == {"chat", "mcp", "history", "account", "settings"}

\* The methods of the generated RPC clients that components call directly.
RpcMethods == {"clearTask", "deleteTasksWithIds", "openDiskConversationHistory",
               "openImage", "openFile", "toggleFavoriteModel",
               "refreshHuggingFaceModels", "askResponse"}

\* handleModeFieldsChange (useApiConfigurationHandlers) is awaited by the
\* OcaModelPicker at three places; the place decides what follows the await.
OcaSites == {"handleModelChange", "handleReasoningEffortChange", "onAcknowledge"}

Methods == RpcMethods \cup OcaSites

\* The OCA models of the picker; those in OcaBannerModels carry a banner.
OcaModels == {"oca-a", "oca-b"}
OcaBannerModels == {"oca-b"}

\* The call sites that attach a rejection handler which logs to the console.
HasCatch(method) ==
    method \in {"clearTask", "openDiskConversationHistory", "openImage", "openFile",
                "toggleFavoriteModel", "refreshHuggingFaceModels", "askResponse"}

RpcIdle ==
    /\ calls = <<>>
    /\ consoleErrors = {}
    /\ unhandled = {}
    /\ view = "chat"
    /\ hfModels = 0
    /\ pendingModelId = ""
    /\ showRestrictedPopup = FALSE
    /\ finallyQueued = <<>>

RpcInit ==
    /\ calls = <<>>
    /\ consoleErrors = {}
    /\ unhandled = {}
    /\ view \in Views
    /\ hfModels = 0
    /\ pendingModelId = ""
    /\ showRestrictedPopup = FALSE
    /\ finallyQueued = <<>>

\* An event handler runs as a task of its own: every promise callback that
\* was queued has run before it starts.
EventTask == finallyQueued = <<>>

\* A component creates the promise of one call; nothing else changes.
Issue(method) ==
    /\ EventTask
    /\ Len(calls) < MaxCalls
    /\ calls' = Append(calls, [method |-> method, state |-> "pending"])

\* Navbar, "chat" tab: clearTask({}).catch(log).finally(() => navigateToChat()).
\* The click only creates the promise; the navigation waits for it to settle.
NavbarNavigateChat ==
    /\ Issue("clearTask")
    /\ UNCHANGED <<consoleErrors, unhandled, view, hfModels, pendingModelId,
                   showRestrictedPopup, finallyQueued>>
    /\ RpcOnly

\* Navbar, the other tabs: navigateToMcp / History / Account / Settings.
NavbarNavigate(v) ==
    /\ EventTask
    /\ v \in Views \ {"chat"}
    /\ view' = v
    /\ UNCHANGED <<calls, consoleErrors, unhandled, hfModels, pendingModelId,
                   showRestrictedPopup, finallyQueued>>
    /\ RpcOnly

\* A handler that calls `method` when its guard lets it, and returns otherwise.
IssueIf(guard, method) ==
    IF guard THEN Issue(method) ELSE EventTask /\ UNCHANGED calls

\* Creating a promise touches no component state.
NothingElse ==
    UNCHANGED <<consoleErrors, unhandled, view, hfModels, pendingModelId,
                showRestrictedPopup, finallyQueued>>

\* DeleteTaskButton: taskId && TaskServiceClient.deleteTasksWithIds(...).
DeleteTaskClick(taskId) ==
    /\ IssueIf(taskId # "", "deleteTasksWithIds")
    /\ NothingElse /\ RpcOnly

\* OpenDiskConversationHistoryButton: if (!taskId) return; ...catch(console.error).
OpenDiskConversationHistoryClick(taskId) ==
    /\ IssueIf(taskId # "", "openDiskConversationHistory")
    /\ NothingElse /\ RpcOnly

\* Thumbnails.handleImageClick.
ThumbnailImageClick ==
    /\ Issue("openImage")
    /\ NothingElse /\ RpcOnly

\* Thumbnails.handleFileClick.
ThumbnailFileClick ==
    /\ Issue("openFile")
    /\ NothingElse /\ RpcOnly

\* HicapModelPicker, StarIcon onClick.
StarClick ==
    /\ Issue("toggleFavoriteModel")
    /\ NothingElse /\ RpcOnly

\* HuggingFaceModelPicker, useMount.
HuggingFaceMount ==
    /\ Issue("refreshHuggingFaceModels")
    /\ NothingElse /\ RpcOnly

\* OptionsButtons.handleSelect: if (hasSelected || !isActive) return.
OptionSelect(optionsActive, hasSelected) ==
    /\ IssueIf(~(hasSelected \/ ~optionsActive), "askResponse")
    /\ NothingElse /\ RpcOnly

\* OcaModelPicker.handleModelChange: a model with a banner opens the popup,
\* any other model is written at once through handleModeFieldsChange.
OcaModelChange(newModelId) ==
    /\ EventTask
    /\ newModelId \in OcaModels
    /\ IF newModelId \in OcaBannerModels
          THEN /\ pendingModelId' = newModelId
               /\ showRestrictedPopup' = TRUE
               /\ UNCHANGED calls
          ELSE /\ Issue("handleModelChange")
               /\ UNCHANGED <<pendingModelId, showRestrictedPopup>>
    /\ UNCHANGED <<consoleErrors, unhandled, view, hfModels, finallyQueued>>
    /\ RpcOnly

\* OcaModelPicker.handleReasoningEffortChange (onChange of the reasoning-effort
\* dropdown): awaits handleModeFieldsChange with nothing after it.
OcaReasoningEffortChange ==
    /\ Issue("handleReasoningEffortChange")
    /\ NothingElse /\ RpcOnly

\* OcaModelPicker.onAcknowledge up to its await.
OcaAcknowledge ==
    /\ EventTask
    /\ showRestrictedPopup
    /\ IF pendingModelId # "" THEN Issue("onAcknowledge") ELSE UNCHANGED calls
    /\ UNCHANGED <<consoleErrors, unhandled, view, hfModels, pendingModelId,
                   showRestrictedPopup, finallyQueued>>
    /\ RpcOnly

\* OcaModelPicker.onCancel.
OcaCancel ==
    /\ EventTask
    /\ showRestrictedPopup
    /\ pendingModelId' = ""
    /\ showRestrictedPopup' = FALSE
    /\ UNCHANGED <<calls, consoleErrors, unhandled, view, hfModels, finallyQueued>>
    /\ RpcOnly

\* The promise of call i settles: resolved when ok, rejected otherwise.
SettleCall(i, ok) ==
    calls' = [calls EXCEPT ![i].state = IF ok THEN "resolved" ELSE "rejected"]

\* What a rejection does at a call site: the attached .catch / catch block logs
\* it; with no handler attached it stays an unhandled rejection.
RejectionHandling(i, ok) ==
    /\ consoleErrors' = IF ~ok /\ HasCatch(calls[i].method)
                           THEN consoleErrors \cup {i} ELSE consoleErrors
    /\ unhandled' = IF ~ok /\ ~HasCatch(calls[i].method)
                       THEN unhandled \cup {i} ELSE unhandled

Pending(i, method) ==
    /\ i \in DOMAIN calls
    /\ calls[i].method = method
    /\ calls[i].state = "pending"

\* Variant of ClearTaskSettled: the rejection handler calls clearTask again.
ClearTaskSettledRetry(i, ok) ==
    /\ Pending(i, "clearTask")
    /\ calls' = IF ~ok /\ Len(calls) < MaxCalls
                   THEN Append([calls EXCEPT ![i].state = "rejected"],
                               [method |-> "clearTask", state |-> "pending"])
                   ELSE [calls EXCEPT ![i].state = IF ok THEN "resolved" ELSE "rejected"]
    /\ RejectionHandling(i, ok)
    /\ finallyQueued' = Append(finallyQueued, i)
    /\ UNCHANGED <<view, hfModels, pendingModelId, showRestrictedPopup>>
    /\ RpcOnly

\* Navbar: .catch(log).finally(() => navigateToChat()). The .catch callback
\* runs when the call settles (it logs a rejection); the .finally callback is
\* queued behind it on either outcome and runs as a later microtask.
ClearTaskSettled(i, ok) ==
    /\ Pending(i, "clearTask")
    /\ SettleCall(i, ok)
    /\ RejectionHandling(i, ok)
    /\ finallyQueued' = Append(finallyQueued, i)
    /\ UNCHANGED <<view, hfModels, pendingModelId, showRestrictedPopup>>
    /\ RpcOnly

\* Navbar: the queued .finally(() => navigateToChat()) callback runs; the
\* callbacks run in the order in which they were queued.
ClearTaskFinally ==
    /\ finallyQueued # <<>>
    /\ view' = "chat"
    /\ finallyQueued' = Tail(finallyQueued)
    /\ UNCHANGED <<calls, consoleErrors, unhandled, hfModels, pendingModelId,
                   showRestrictedPopup>>
    /\ RpcOnly

\* The call sites with nothing after the call but the rejection handler, and
\* DeleteTaskButton, which attaches no handler at all.
PlainMethods == {"deleteTasksWithIds", "openDiskConversationHistory", "openImage",
                 "openFile", "toggleFavoriteModel", "askResponse", "handleModelChange",
                 "handleReasoningEffortChange"}

PlainSettled(i, ok) ==
    /\ \E m \in PlainMethods : Pending(i, m)
    /\ SettleCall(i, ok)
    /\ RejectionHandling(i, ok)
    /\ UNCHANGED <<view, hfModels, pendingModelId, showRestrictedPopup, finallyQueued>>
    /\ RpcOnly

\* HuggingFaceModelPicker: .then((response) => setHuggingFaceModels(...)).catch(log).
RefreshHuggingFaceSettled(i, ok) ==
    /\ Pending(i, "refreshHuggingFaceModels")
    /\ SettleCall(i, ok)
    /\ RejectionHandling(i, ok)
    /\ hfModels' = IF ok THEN i ELSE hfModels
    /\ UNCHANGED <<view, pendingModelId, showRestrictedPopup, finallyQueued>>
    /\ RpcOnly

\* OcaModelPicker.onAcknowledge after its await: the two setters run only when
\* the awaited promise resolved; a rejection leaves the async handler.
OcaAcknowledgeSettled(i, ok) ==
    /\ Pending(i, "onAcknowledge")
    /\ SettleCall(i, ok)
    /\ RejectionHandling(i, ok)
    /\ pendingModelId' = IF ok THEN "" ELSE pendingModelId
    /\ showRestrictedPopup' = IF ok THEN FALSE ELSE showRestrictedPopup
    /\ UNCHANGED <<view, hfModels, finallyQueued>>
    /\ RpcOnly

RpcNext ==
    \/ NavbarNavigateChat
    \/ \E v \in Views : NavbarNavigate(v)
    \/ \E taskId \in {"", "task-1"} : DeleteTaskClick(taskId)
    \/ \E taskId \in {"", "task-1"} : OpenDiskConversationHistoryClick(taskId)
    \/ ThumbnailImageClick
    \/ ThumbnailFileClick
    \/ StarClick
    \/ HuggingFaceMount
    \/ \E optionsActive, hasSelected \in BOOLEAN : OptionSelect(optionsActive, hasSelected)
    \/ \E m \in OcaModels : OcaModelChange(m)
    \/ OcaReasoningEffortChange
    \/ OcaAcknowledge
    \/ OcaCancel
    \/ \E i \in 1..MaxCalls, ok \in BOOLEAN : ClearTaskSettled(i, ok)
    \/ ClearTaskFinally
    \/ \E i \in 1..MaxCalls, ok \in BOOLEAN : PlainSettled(i, ok)
    \/ \E i \in 1..MaxCalls, ok \in BOOLEAN : RefreshHuggingFaceSettled(i, ok)
    \/ \E i \in 1..MaxCalls, ok \in BOOLEAN : OcaAcknowledgeSettled(i, ok)

\* No page part is running.
PagesIdle == RpcIdle /\ TabIdle /\ PickerIdle /\ FocusIdle

\* No widget part is running.
WidgetsIdle == ToggleIdle /\ NavIdle /\ ActivationIdle

InitRpc == RpcInit /\ TabIdle /\ PickerIdle /\ FocusIdle /\ WidgetsIdle
SpecRpc == InitRpc /\ [][RpcNext]_vars

InitTabs == TabInit /\ RpcIdle /\ PickerIdle /\ FocusIdle /\ WidgetsIdle
SpecTabs == InitTabs /\ [][TabNext]_vars

InitPicker == PickerInit /\ RpcIdle /\ TabIdle /\ FocusIdle /\ WidgetsIdle
SpecPicker == InitPicker /\ [][PickerNext]_vars

InitFocus == TrapInit /\ RpcIdle /\ TabIdle /\ PickerIdle /\ WidgetsIdle
SpecFocus == InitFocus /\ [][FocusNext]_vars

InitModal == ModalInit /\ RpcIdle /\ TabIdle /\ PickerIdle /\ WidgetsIdle
SpecModal == InitModal /\ [][ModalNext]_vars

InitToggle == ToggleInit /\ PagesIdle /\ NavIdle /\ ActivationIdle
SpecToggle == InitToggle /\ [][ToggleNext]_vars

InitNav == NavInit /\ PagesIdle /\ ToggleIdle /\ ActivationIdle
SpecNav == InitNav /\ [][NavNext]_vars

InitActivation == ActivationInit /\ PagesIdle /\ ToggleIdle /\ NavIdle
SpecActivation == InitActivation /\ [][ActivationNext]_vars

OtherMode == CHOOSE m \in Modes : m # currentMode

\* The calls C1 lists: those a component makes on a generated RPC client.
ListedCall(i) == i \in DOMAIN calls /\ calls[i].method \in RpcMethods

\* C1: every rejected RPC call of a component (clearTask, deleteTasksWithIds,
\* openDiskConversationHistory, openImage, openFile, toggleFavoriteModel,
\* refreshHuggingFaceModels, askResponse) was caught and logged to the console,
\* and none is left an unhandled rejection.
C1_RejectionsCaughtAndLogged ==
    \A i \in DOMAIN calls :
        (ListedCall(i) /\ calls[i].state = "rejected")
            => (i \in consoleErrors /\ i \notin unhandled)

\* Call i settles in this step.
Settles(i) ==
    /\ i \in DOMAIN calls
    /\ calls[i].state = "pending"
    /\ calls'[i].state # "pending"

\* Component state that a handler could change after a call completed.
LocalState == <<view, hfModels, pendingModelId, showRestrictedPopup>>

\* C2 as stated: every call is fire-and-forget: the completion of a call
\* issues no call again, performs no state change, and leaves no callback
\* behind that would navigate.
C2_FireAndForget ==
    [][\A i \in 1..MaxCalls :
          Settles(i) => /\ Len(calls') = Len(calls)
                        /\ LocalState' = LocalState
                        /\ finallyQueued' = finallyQueued]_vars

\* C2 amended: no failed call is retried (a completing call never issues a call),
\* and the only local actions ordered after a completion are: navigateToChat
\* after clearTask settled either way, setHuggingFaceModels after
\* refreshHuggingFaceModels resolved, and clearing the pending model and the
\* popup after the handleModeFieldsChange awaited by onAcknowledge resolved.
C2_NoRetryAndOrderedActions ==
    [][/\ \A i \in 1..MaxCalls :
          Settles(i) =>
             /\ Len(calls') = Len(calls)
             /\ \A j \in DOMAIN calls : j # i => calls'[j] = calls[j]
             /\ view' = view
             /\ IF calls[i].method = "clearTask"
                   THEN finallyQueued' = Append(finallyQueued, i)
                   ELSE finallyQueued' = finallyQueued
             /\ IF calls[i].method = "refreshHuggingFaceModels"
                      /\ calls'[i].state = "resolved"
                   THEN hfModels' = i
                   ELSE hfModels' = hfModels
             /\ IF calls[i].method = "onAcknowledge" /\ calls'[i].state = "resolved"
                   THEN pendingModelId' = "" /\ showRestrictedPopup' = FALSE
                   ELSE UNCHANGED <<pendingModelId, showRestrictedPopup>>
       /\ finallyQueued # <<>> =>
            \/ \E i \in 1..MaxCalls : Settles(i)
            \/ /\ calls[Head(finallyQueued)].method = "clearTask"
               /\ calls[Head(finallyQueued)].state # "pending"
               /\ finallyQueued' = Tail(finallyQueued)
               /\ view' = "chat"
               /\ calls' = calls
               /\ UNCHANGED <<hfModels, pendingModelId, showRestrictedPopup>>]_vars

\* A clearTask call was rejected, nothing was issued in its place, and the
\* navigation that waited for it has happened.
C2_Witness ==
    /\ Len(calls) = 1
    /\ calls[1].method = "clearTask"
    /\ calls[1].state = "rejected"
    /\ 1 \in consoleErrors
    /\ finallyQueued = <<>>
    /\ view = "chat"

(***************************************************************************)
(* Claims about the searchable model pickers                               *)
(***************************************************************************)

\* C4: in every searchable model picker, pressing Escape while the dropdown is
\* visible makes the dropdown not visible and leaves the configured model ID
\* and the search term unchanged.
C4_EscapeClosesDropdown ==
    /\ [](lastEvent = "Escape" => ~isDropdownVisible)
    /\ [][(lastEvent' = "Escape" /\ isDropdownVisible)
            => /\ ~isDropdownVisible'
               /\ modelId' = modelId
               /\ searchTerm' = searchTerm]_vars

\* Escape closed a dropdown whose search field held a typed text that is not the
\* configured model.
C4_Witness ==
    /\ lastEvent = "Escape"
    /\ ~isDropdownVisible
    /\ searchTerm = "al"
    /\ modelId[currentMode] = "beta"

\* C5: in every searchable model picker, committing a result (a click on it, or
\* Enter with the selected index inside the results) writes that result's ID as
\* the model of the current mode and of no other mode, sets the search term to
\* that ID and hides the dropdown.
C5_CommitWritesModel ==
    /\ []((lastEvent \in {"Click", "Enter"} /\ committed # "")
            => /\ modelId[currentMode] = committed
               /\ searchTerm = committed
               /\ ~isDropdownVisible)
    /\ [][(lastEvent' \in {"Click", "Enter"} /\ committed' # "")
            => modelId'[OtherMode] = modelId[OtherMode]]_vars

\* Enter committed the second result, which was not the configured model.
C5_Witness ==
    /\ lastEvent = "Enter"
    /\ committed = searchableItems[2]
    /\ modelId[currentMode] = committed
    /\ modelId[OtherMode] # committed
    /\ ~isDropdownVisible

(***************************************************************************)
(* Claims about focus management                                           *)
(***************************************************************************)

\* C6: while useFocusTrap is active on a container that has at least one
\* focusable element, focus never escapes to a background element: after any
\* sequence of Tab and Shift+Tab presses (the browser moving focus in document
\* order when the handler does not prevent the default) the focused element is
\* inside the container.
C6_FocusNeverEscapes ==
    (/\ trapKind = "useFocusTrap"
     /\ isActive
     /\ Len(getFocusableElements(containerElements, TRUE)) > 0
     /\ lastTrapKey \in {"Tab", "Shift+Tab"}
     /\ focusBefore \in inside)
    => activeElement \in inside

\* The key press createFocusTrapHandler handled last: one made on an element
\* inside the container.
HandlerSaw(keys) ==
    /\ trapKind = "createFocusTrapHandler"
    /\ lastTrapKey \in keys
    /\ focusBefore \in inside

\* C9: createFocusTrapHandler traps Tab and Shift+Tab within the container (a
\* Tab or Shift+Tab pressed on a focusable element of the container leaves
\* focus inside it): Tab on the last focusable element moves focus to the
\* first, Shift+Tab on the first moves focus to the last, and Escape calls
\* onEscape (when provided) without moving focus.
C9_TrapsTabInContainer ==
    LET focusableElements == getFocusableElements(containerElements, TRUE)
        firstElement == focusableElements[1]
        lastElement == focusableElements[Len(focusableElements)]
        onFocusable == \E i \in DOMAIN focusableElements :
                          focusBefore = focusableElements[i]
    IN /\ (HandlerSaw({"Tab", "Shift+Tab"}) /\ onFocusable) => activeElement \in inside
       /\ (HandlerSaw({"Tab"}) /\ focusableElements # <<>> /\ focusBefore = lastElement)
             => activeElement = firstElement
       /\ (HandlerSaw({"Shift+Tab"}) /\ focusableElements # <<>> /\ focusBefore = firstElement)
             => activeElement = lastElement
       /\ (HandlerSaw({"Escape"}) /\ onEscapeProvided)
             => (onEscapeCalled /\ activeElement = focusBefore)

\* C7: when a modal managed by useModal closes (isOpen goes from true to false)
\* or its component unmounts, focus is restored to the trigger element if the
\* trigger ref is set (and the trigger is in the document afterwards), and
\* otherwise to the element that was focused when the component mounted,
\* provided that element is still in the document.
C7_FocusRestoredOnClose ==
    modalEvent \in {"close", "unmount"}
    => IF triggerRefSet
          THEN InDocument(TriggerPos) => activeElement = TriggerPos
          ELSE (focusAtMount \notin {Null, Body} /\ InDocument(focusAtMount))
               => activeElement = focusAtMount

\* C8: useModal calls onClose exactly once for each Escape press made while
\* isOpen is true and never for a key press made while isOpen is false, across
\* any sequence of open, close and key events.
C8_OnCloseOncePerEscape == onCloseCalls = openEscapes

\* Escape was pressed MaxPresses times on the open modal; it was closed and
\* reopened in between, its onClose was replaced, and it is closed again.
C8_Witness ==
    /\ onCloseCalls = MaxPresses
    /\ openEscapes = MaxPresses
    /\ onCloseProp = "onClose#2"
    /\ modalMounted
    /\ ~isActive
    /\ modalEvent = ""

(***************************************************************************)
(* Claims about the keyboard helpers of interactiveProps                   *)
(***************************************************************************)

\* C11: for a toggle built with createToggleButtonProps and collapseOnEscape
\* true, Escape calls onToggle only when the element is expanded, so an Escape
\* press never expands a collapsed element; aria-expanded always equals
\* isExpanded, and the default aria-label is "Collapse" when expanded and
\* "Expand" when collapsed.
C11_EscapeOnlyCollapses ==
    /\ (collapseOnEscape = "true" /\ lastToggleEvent = "Escape")
          => /\ onToggleCalls = (IF expandedBefore THEN 1 ELSE 0)
             /\ ~isExpanded
    /\ toggleProps.ariaExpanded = isExpanded
    /\ ariaLabel = Undefined
          => toggleProps.ariaLabel = (IF isExpanded THEN "Collapse" ELSE "Expand")

\* Escape was pressed on a collapsed toggle that collapses on Escape and has
\* the default label: nothing was called and it is still collapsed.
C11_Witness ==
    /\ collapseOnEscape = "true"
    /\ lastToggleEvent = "Escape"
    /\ ~expandedBefore
    /\ ~isExpanded
    /\ onToggleCalls = 0
    /\ toggleProps.ariaLabel = "Expand"

\* C12: the handler of createArrowKeyNavigationHandler calls onNext/onPrev for
\* ArrowRight/ArrowLeft only when orientation is horizontal or both, for
\* ArrowDown/ArrowUp only when orientation is vertical or both (default
\* horizontal), calls onFirst for Home and onLast for End under every
\* orientation, and for any other key, or a key whose callback is absent, calls
\* no callback and does not prevent the default.
C12_KeysCallTheirCallbacks ==
    LET orientation == IF navOptions.orientation = "unset"
                          THEN "horizontal" ELSE navOptions.orientation
        horizontal == orientation \in {"horizontal", "both"}
        vertical == orientation \in {"vertical", "both"}
        wanted ==
            CASE lastNavKey = "ArrowRight" /\ horizontal -> "onNext"
              [] lastNavKey = "ArrowLeft" /\ horizontal -> "onPrev"
              [] lastNavKey = "ArrowDown" /\ vertical -> "onNext"
              [] lastNavKey = "ArrowUp" /\ vertical -> "onPrev"
              [] lastNavKey = "Home" -> "onFirst"
              [] lastNavKey = "End" -> "onLast"
              [] OTHER -> "none"
        expected == IF wanted # "none" /\ navOptions[wanted] THEN wanted ELSE "none"
    IN lastNavKey # ""
       => /\ navCallback = expected
          /\ navPrevented = (expected # "none")

\* ArrowDown was pressed on a group whose options give onNext and no
\* orientation: under the default, horizontal, nothing was called.
C12_Witness ==
    /\ lastNavKey = "ArrowDown"
    /\ navOptions.orientation = "unset"
    /\ navOptions.onNext
    /\ navCallback = "none"
    /\ ~navPrevented
    /\ navIndex = navIndexBefore

\* The last key press navigated from an end of the group towards the outside:
\* onNext on the last item or onPrev on the first.
NavigatedAtAnEnd ==
    /\ navCount > 1
    /\ \/ navCallback = "onNext" /\ navIndexBefore = navCount - 1
       \/ navCallback = "onPrev" /\ navIndexBefore = 0

\* That key press wrapped around to the other end.
NavigationWrapped ==
    \/ navCallback = "onNext" /\ navIndex = 0
    \/ navCallback = "onPrev" /\ navIndex = navCount - 1

\* C13: the wrap option of createArrowKeyNavigationHandler determines whether
\* navigation wraps from the last item to the first and vice versa: with wrap
\* true it wraps, with wrap false it does not.
C13_WrapOptionDecidesWrapping ==
    (NavigatedAtAnEnd /\ navOptions.wrap # Undefined)
    => (NavigationWrapped <=> navOptions.wrap = "true")

\* C14: the handler of createKeyboardActivationHandler calls the given handler
\* exactly once and prevents the default if and only if the pressed key is
\* Enter or Space; for every other key it calls nothing.
C14_EnterAndSpaceActivate ==
    (HasActivationHandler /\ lastActivationKey \notin {"", "click"})
    => IF lastActivationKey \in {"Enter", " "}
          THEN keyHandlerCalls = 1 /\ activationPrevented
          ELSE keyHandlerCalls = 0 /\ ~activationPrevented

\* Space was pressed on a FeaturedModelCard that had been activated before: the
\* handler called onClick once and prevented the default.
C14_Witness ==
    /\ activationElement = "FeaturedModelCard"
    /\ lastActivationKey = " "
    /\ keyHandlerCalls = 1
    /\ activationPrevented
    /\ activations >= 2

====
